---------------------------- MODULE Spec2Model ----------------------------
(***************************************************************************)
(* caf::scheduler::coordinator<Policy>                                     *)
(* (libcaf_core/caf/scheduler/coordinator.hpp).                            *)
(*                                                                         *)
(* The control thread runs start() and stop(); every worker owns one       *)
(* thread that dequeues or steals resumables and resumes them; producers   *)
(* call enqueue().  stop() shuts the workers down with one reusable        *)
(* sentinel (shutdown_helper sh) whose resume() reports the executing      *)
(* worker through sh.last_worker under sh.mtx / sh.cv.                     *)
(*                                                                         *)
(* coordinator.hpp is translated statement by statement.  worker<Policy>   *)
(* and Policy are not part of coordinator.hpp; they are modelled from      *)
(* their required interface: FIFO local queues, a central queue, stealing  *)
(* by a running worker from any peer's queue.                              *)
(***************************************************************************)
EXTENDS Integers, Sequences, FiniteSets

\* ------------------------------------------------------------------ bounds
MaxWorkers == 2
MaxJobs == 2

\* --------------------------------------------------------------- constants
\* nullptr in sh.last_worker (shutdown_helper() : last_worker(nullptr))
NoWorker == -1
\* the one shutdown_helper instance `sh` of stop(), as a queue item
SH == 0

WorkerIds == 0 .. (MaxWorkers - 1)
Jobs == 1 .. MaxJobs
Items == {SH} \cup Jobs

VARIABLES
  num,               \* num_workers(): the configured worker count
  workers_,          \* std::vector<std::unique_ptr<worker_type>>: the index given to each worker
  start_pc,          \* position of the control thread inside start()
  start_i,           \* loop index of start()
  wst,               \* per worker: none | new | idle | resume | sh_locked | sh_set | exiting | terminated
  cur,               \* per worker: the dequeued job, <<>> when none
  local,             \* per worker: the policy's worker-local queue
  central,           \* the policy's coordinator_data queue
  resumes,           \* per job: number of resume() calls made on it by the workers
  cleaned,           \* per item: number of cleanup_and_release calls on it
  enq,               \* jobs handed to enqueue() so far
  before_stop,       \* jobs handed to enqueue() before stop() was called
  stop_pc,           \* position of the control thread inside stop()
  stop_i,            \* loop index of stop()
  alive_workers,     \* std::set<worker_type*> alive_workers
  last_worker,       \* sh.last_worker
  mtx,               \* sh.mtx: "free", or held by "stop" or by a "worker" (the one in sh_locked / sh_set)
  sh_rc,             \* reference count of sh
  sh_exec,           \* per worker: number of times it executed sh.resume()
  sh_submits,        \* number of external_enqueue(&sh) calls
  sh_target,         \* the worker sh was last submitted to, alive_workers.begin()
  relocations,       \* number of sh executions by a worker other than sh_target
  stop_actors_calls, \* number of stop_actors() calls
  joined,            \* workers whose thread has been joined
  at_drain           \* [taken, jobs]: the jobs queued when the last worker thread terminated

vars == <<num, workers_, start_pc, start_i, wst, cur, local, central,
          resumes, cleaned, enq, before_stop, stop_pc, stop_i,
          alive_workers, last_worker, mtx, sh_rc, sh_exec, sh_submits,
          sh_target, relocations, stop_actors_calls, joined, at_drain>>

startVars  == <<num, workers_, start_pc, start_i>>
queueVars  == <<local, central>>
jobVars    == <<resumes, cleaned, enq, before_stop>>
submitVars == <<sh_submits, sh_target>>
execVars   == <<sh_exec, relocations>>
stopVars   == <<stop_pc, stop_i, alive_workers, sh_rc, submitVars,
                stop_actors_calls, joined>>

\* ----------------------------------------------------------------- helpers
Range(s) == {s[k] : k \in 1 .. Len(s)}

\* worker_type* worker_by_id(size_t x) { return workers_[x].get(); }
worker_by_id(x) == workers_[x + 1]

\* every item currently held by some queue
Queued == Range(central) \cup UNION {Range(local[w]) : w \in WorkerIds}

\* ------------------------------------------------------------------- Init
Init ==
  /\ num \in 1 .. MaxWorkers
  /\ workers_ = <<>>
  /\ start_pc = "idle"
  /\ start_i = 0
  /\ wst = [w \in WorkerIds |-> "none"]
  /\ cur = [w \in WorkerIds |-> <<>>]
  /\ local = [w \in WorkerIds |-> <<>>]
  /\ central = <<>>
  /\ resumes = [j \in Jobs |-> 0]
  /\ cleaned = [j \in Items |-> 0]
  /\ enq = {}
  /\ before_stop = {}
  /\ stop_pc = "idle"
  /\ stop_i = 0
  /\ alive_workers = {}
  /\ last_worker = NoWorker
  /\ mtx = "free"
  /\ sh_rc = 1
  /\ sh_exec = [w \in WorkerIds |-> 0]
  /\ sh_submits = 0
  /\ sh_target = NoWorker
  /\ relocations = 0
  /\ stop_actors_calls = 0
  /\ joined = {}
  /\ at_drain = [taken |-> FALSE, jobs |-> {}]

\* ---------------------------------------------------------------- start()
\* start() is entered by the control thread; auto num = num_workers();
\* workers_.reserve(num)
StartCall ==
  /\ start_pc = "idle"
  /\ start_pc' = "construct"
  /\ start_i' = 0
  /\ UNCHANGED <<num, workers_, wst, cur, queueVars, jobVars, stopVars,
                 last_worker, mtx, execVars, at_drain>>

\* Variant of StartConstruct: each worker is started as soon as it is built.
StartConstruct_LaunchEarly ==
  /\ start_pc = "construct"
  /\ start_i < num
  /\ workers_' = Append(workers_, start_i)
  /\ wst' = [wst EXCEPT ![start_i] = "idle"]
  /\ IF start_i + 1 < num
       THEN start_i' = start_i + 1 /\ start_pc' = start_pc
       ELSE start_i' = 0 /\ start_pc' = "launch"
  /\ UNCHANGED <<num, cur, queueVars, jobVars, stopVars, last_worker, mtx,
                 execVars, at_drain>>

\* for (size_t i = 0; i < num; ++i)
\*   workers_.emplace_back(new worker_type(i, this, max_throughput_));
StartConstruct ==
  /\ start_pc = "construct"
  /\ start_i < num
  /\ workers_' = Append(workers_, start_i)
  /\ wst' = [wst EXCEPT ![start_i] = "new"]
  /\ IF start_i + 1 < num
       THEN start_i' = start_i + 1 /\ start_pc' = start_pc
       ELSE start_i' = 0 /\ start_pc' = "launch"
  /\ UNCHANGED <<num, cur, queueVars, jobVars, stopVars, last_worker, mtx,
                 execVars, at_drain>>

\* Variant of StartLaunch: the launch loop stops one worker short.
StartLaunch_SkipLast ==
  /\ start_pc = "launch"
  /\ start_i < Len(workers_)
  /\ wst' = IF start_i + 1 < Len(workers_)
              THEN [wst EXCEPT ![worker_by_id(start_i)] = "idle"]
              ELSE wst
  /\ IF start_i + 1 < Len(workers_)
       THEN start_i' = start_i + 1 /\ start_pc' = start_pc
       ELSE start_i' = 0 /\ start_pc' = "super"
  /\ UNCHANGED <<num, workers_, cur, queueVars, jobVars, stopVars,
                 last_worker, mtx, execVars, at_drain>>

\* for (auto& w : workers_) w->start();
StartLaunch ==
  /\ start_pc = "launch"
  /\ start_i < Len(workers_)
  /\ wst' = [wst EXCEPT ![worker_by_id(start_i)] = "idle"]
  /\ IF start_i + 1 < Len(workers_)
       THEN start_i' = start_i + 1 /\ start_pc' = start_pc
       ELSE start_i' = 0 /\ start_pc' = "super"
  /\ UNCHANGED <<num, workers_, cur, queueVars, jobVars, stopVars,
                 last_worker, mtx, execVars, at_drain>>

\* super::start(); and start() returns
StartSuper ==
  /\ start_pc = "super"
  /\ start_pc' = "done"
  /\ UNCHANGED <<num, workers_, start_i, wst, cur, queueVars, jobVars,
                 stopVars, last_worker, mtx, execVars, at_drain>>

Running == start_pc = "done"

\* ------------------------------------------------------ policy and worker
\* Policy::central_enqueue(coordinator, ptr): the job goes to the central
\* queue or to the local queue of one of the workers.
central_enqueue(ptr) ==
  \/ /\ central' = Append(central, ptr)
     /\ UNCHANGED local
  \/ \E w \in Range(workers_) :
       /\ local' = [local EXCEPT ![w] = Append(@, ptr)]
       /\ UNCHANGED central

\* worker::external_enqueue(ptr): thread-safe insertion into w's queue
external_enqueue(w, ptr) ==
  /\ local' = [local EXCEPT ![w] = Append(@, ptr)]
  /\ UNCHANGED central

\* the worker's run loop takes the head of its own queue
Dequeue(w) ==
  /\ wst[w] = "idle"
  /\ local[w] /= <<>>
  /\ cur' = [cur EXCEPT ![w] = <<Head(local[w])>>]
  /\ local' = [local EXCEPT ![w] = Tail(@)]
  /\ wst' = [wst EXCEPT ![w] = "resume"]
  /\ UNCHANGED <<startVars, central, jobVars, stopVars, last_worker, mtx,
                 execVars, at_drain>>

\* the worker's run loop takes the head of the central queue
DequeueCentral(w) ==
  /\ wst[w] = "idle"
  /\ central /= <<>>
  /\ cur' = [cur EXCEPT ![w] = <<Head(central)>>]
  /\ central' = Tail(central)
  /\ wst' = [wst EXCEPT ![w] = "resume"]
  /\ UNCHANGED <<startVars, local, jobVars, stopVars, last_worker, mtx,
                 execVars, at_drain>>

\* the worker's run loop steals the tail of a peer's queue
Steal(w, v) ==
  /\ wst[w] = "idle"
  /\ v /= w
  /\ local[v] /= <<>>
  /\ cur' = [cur EXCEPT ![w] = <<local[v][Len(local[v])]>>]
  /\ local' = [local EXCEPT ![v] = SubSeq(@, 1, Len(@) - 1)]
  /\ wst' = [wst EXCEPT ![w] = "resume"]
  /\ UNCHANGED <<startVars, central, jobVars, stopVars, last_worker, mtx,
                 execVars, at_drain>>

\* job->resume(this, max_throughput) of an ordinary single-step resumable
ResumeJob(w) ==
  /\ wst[w] = "resume"
  /\ cur[w] /= <<>>
  /\ cur[w][1] \in Jobs
  /\ resumes' = [resumes EXCEPT ![cur[w][1]] = @ + 1]
  /\ cur' = [cur EXCEPT ![w] = <<>>]
  /\ wst' = [wst EXCEPT ![w] = "idle"]
  /\ UNCHANGED <<startVars, queueVars, cleaned, enq, before_stop, stopVars,
                 last_worker, mtx, execVars, at_drain>>

\* the run loop returns after shutdown_execution_unit: the thread ends
WorkerExit(w) ==
  /\ wst[w] = "exiting"
  /\ wst' = [wst EXCEPT ![w] = "terminated"]
  /\ at_drain' = IF \A x \in 0 .. (num - 1) : wst'[x] = "terminated"
                   THEN [taken |-> TRUE, jobs |-> Queued \cap Jobs]
                   ELSE at_drain
  /\ UNCHANGED <<startVars, cur, queueVars, jobVars, stopVars, last_worker,
                 mtx, execVars>>

\* --------------------------------------------------------------- enqueue()
\* void enqueue(resumable* ptr) { policy_.central_enqueue(this, ptr); }
\* Variant of Enqueue: the resumable is handed to the policy twice.
Enqueue_Twice(j) ==
  /\ Running
  /\ stop_pc /= "done"
  /\ enq = 1 .. (j - 1)
  /\ central' = Append(Append(central, j), j)
  /\ UNCHANGED local
  /\ enq' = enq \cup {j}
  /\ before_stop' = IF stop_pc = "idle" THEN before_stop \cup {j} ELSE before_stop
  /\ UNCHANGED <<startVars, wst, cur, resumes, cleaned, stopVars,
                 last_worker, mtx, execVars, at_drain>>

\* Variant of Enqueue: the resumable is never handed to the policy.
Enqueue_Drop(j) ==
  /\ Running
  /\ stop_pc /= "done"
  /\ enq = 1 .. (j - 1)
  /\ enq' = enq \cup {j}
  /\ before_stop' = IF stop_pc = "idle" THEN before_stop \cup {j} ELSE before_stop
  /\ UNCHANGED <<startVars, wst, cur, queueVars, resumes, cleaned, stopVars,
                 last_worker, mtx, execVars, at_drain>>

\* Resumables are interchangeable: they are numbered in the order in which
\* the producers' calls take effect.
Enqueue(j) ==
  /\ Running
  /\ stop_pc /= "done"
  /\ enq = 1 .. (j - 1)
  /\ central_enqueue(j)
  /\ enq' = enq \cup {j}
  /\ before_stop' = IF stop_pc = "idle" THEN before_stop \cup {j} ELSE before_stop
  /\ UNCHANGED <<startVars, wst, cur, resumes, cleaned, stopVars,
                 last_worker, mtx, execVars, at_drain>>

\* ------------------------------------------- shutdown_helper::resume()
\* Variant of ShLock: resume() goes on without taking sh.mtx.
ShLock_NoLock(w) ==
  /\ wst[w] = "resume"
  /\ cur[w] = <<SH>>
  /\ wst' = [wst EXCEPT ![w] = "sh_locked"]
  /\ UNCHANGED <<startVars, cur, queueVars, jobVars, stopVars, last_worker,
                 mtx, execVars, at_drain>>

\* std::unique_lock<std::mutex> guard(mtx);
ShLock(w) ==
  /\ wst[w] = "resume"
  /\ cur[w] = <<SH>>
  /\ mtx = "free"
  /\ mtx' = "worker"
  /\ wst' = [wst EXCEPT ![w] = "sh_locked"]
  /\ UNCHANGED <<startVars, cur, queueVars, jobVars, stopVars, last_worker,
                 execVars, at_drain>>

\* last_worker = ptr;
ShSet(w) ==
  /\ wst[w] = "sh_locked"
  /\ last_worker' = w
  /\ sh_exec' = [sh_exec EXCEPT ![w] = @ + 1]
  /\ relocations' = IF w = sh_target THEN relocations ELSE relocations + 1
  /\ wst' = [wst EXCEPT ![w] = "sh_set"]
  /\ UNCHANGED <<startVars, cur, queueVars, jobVars, stopVars, mtx, at_drain>>

\* Variant of ShNotifyReturn: resume() returns without cv.notify_all().
ShNotifyReturn_NoNotify(w) ==
  /\ wst[w] = "sh_set"
  /\ mtx' = "free"
  /\ cur' = [cur EXCEPT ![w] = <<>>]
  /\ wst' = [wst EXCEPT ![w] = "exiting"]
  /\ UNCHANGED <<startVars, queueVars, jobVars, stopVars, last_worker,
                 execVars, at_drain>>

\* cv.notify_all(); return resumable::shutdown_execution_unit;
\* (the guard's destructor unlocks mtx); the run loop then leaves
ShNotifyReturn(w) ==
  /\ wst[w] = "sh_set"
  /\ stop_pc' = IF stop_pc = "blocked" THEN "relock" ELSE stop_pc
  /\ mtx' = "free"
  /\ cur' = [cur EXCEPT ![w] = <<>>]
  /\ wst' = [wst EXCEPT ![w] = "exiting"]
  /\ UNCHANGED <<startVars, queueVars, jobVars, stop_i, alive_workers, sh_rc,
                 submitVars, stop_actors_calls, joined, last_worker, execVars,
                 at_drain>>

\* ----------------------------------------------------------------- stop()
\* shutdown_helper sh; std::set<worker_type*> alive_workers;
\* auto num = num_workers();
StopCall ==
  /\ Running
  /\ stop_pc = "idle"
  /\ last_worker' = NoWorker
  /\ alive_workers' = {}
  /\ stop_i' = 0
  /\ stop_pc' = "fill"
  /\ UNCHANGED <<startVars, wst, cur, queueVars, jobVars, sh_rc, submitVars,
                 stop_actors_calls, joined, mtx, execVars, at_drain>>

\* for (size_t i = 0; i < num; ++i) {
\*   alive_workers.insert(worker_by_id(i)); sh.ref(); }
StopFill ==
  /\ stop_pc = "fill"
  /\ stop_i < num
  /\ alive_workers' = alive_workers \cup {worker_by_id(stop_i)}
  /\ sh_rc' = sh_rc + 1
  /\ IF stop_i + 1 < num
       THEN stop_i' = stop_i + 1 /\ stop_pc' = stop_pc
       ELSE stop_i' = 0 /\ stop_pc' = "loop"
  /\ UNCHANGED <<startVars, wst, cur, queueVars, jobVars, submitVars,
                 stop_actors_calls, joined, last_worker, mtx, execVars,
                 at_drain>>

\* Variant of StopSubmit: every iteration enqueues sh into each worker of
\* the alive set.
StopSubmit_All ==
  /\ stop_pc = "loop"
  /\ alive_workers /= {}
  /\ local' = [w \in WorkerIds |->
                 IF w \in alive_workers THEN Append(local[w], SH) ELSE local[w]]
  /\ UNCHANGED central
  /\ \E t \in alive_workers : sh_target' = t
  /\ sh_submits' = sh_submits + Cardinality(alive_workers)
  /\ stop_pc' = "lock"
  /\ UNCHANGED <<startVars, wst, cur, jobVars, stop_i, alive_workers, sh_rc,
                 stop_actors_calls, joined, last_worker, mtx, execVars,
                 at_drain>>

\* while (!alive_workers.empty()) {
\*   alive_workers.begin() -> external_enqueue(&sh);
\* begin() is the worker with the lowest address: any member of the set
StopSubmit ==
  /\ stop_pc = "loop"
  /\ alive_workers /= {}
  /\ \E t \in alive_workers :
       /\ external_enqueue(t, SH)
       /\ sh_target' = t
  /\ sh_submits' = sh_submits + 1
  /\ stop_pc' = "lock"
  /\ UNCHANGED <<startVars, wst, cur, jobVars, stop_i, alive_workers, sh_rc,
                 stop_actors_calls, joined, last_worker, mtx, execVars,
                 at_drain>>

\* Variant of StopLoopExit: while (alive_workers.size() > 1).
StopLoopExit_Early ==
  /\ stop_pc = "loop"
  /\ Cardinality(alive_workers) <= 1
  /\ stop_pc' = "stop_actors"
  /\ UNCHANGED <<startVars, wst, cur, queueVars, jobVars, stop_i,
                 alive_workers, sh_rc, submitVars, stop_actors_calls, joined,
                 last_worker, mtx, execVars, at_drain>>

\* Variant of StopLoopExit: control goes to the joins, stop_actors() is left out.
StopLoopExit_SkipActors ==
  /\ stop_pc = "loop"
  /\ alive_workers = {}
  /\ stop_pc' = "join"
  /\ UNCHANGED <<startVars, wst, cur, queueVars, jobVars, stop_i,
                 alive_workers, sh_rc, submitVars, stop_actors_calls, joined,
                 last_worker, mtx, execVars, at_drain>>

\* the loop condition fails: control reaches stop_actors()
StopLoopExit ==
  /\ stop_pc = "loop"
  /\ alive_workers = {}
  /\ stop_pc' = "stop_actors"
  /\ UNCHANGED <<startVars, wst, cur, queueVars, jobVars, stop_i,
                 alive_workers, sh_rc, submitVars, stop_actors_calls, joined,
                 last_worker, mtx, execVars, at_drain>>

\* std::unique_lock<std::mutex> guard(sh.mtx) (position "lock"); also the
\* re-acquisition of sh.mtx inside sh.cv.wait after a wakeup ("relock")
StopLock ==
  /\ stop_pc \in {"lock", "relock"}
  /\ mtx = "free"
  /\ mtx' = "stop"
  /\ stop_pc' = "check"
  /\ UNCHANGED <<startVars, wst, cur, queueVars, jobVars, stop_i,
                 alive_workers, sh_rc, submitVars, stop_actors_calls, joined,
                 last_worker, execVars, at_drain>>

\* Variant of WaitPredicate: the wait expects the worker sh was submitted to.
WaitPredicate_Target == last_worker = sh_target

\* [&] { return sh.last_worker != nullptr; }
WaitPredicate == last_worker /= NoWorker

\* Variant of StopWait: sh.cv.wait returns without consulting the predicate.
StopWait_NoPredicate ==
  /\ stop_pc = "check"
  /\ mtx' = "free"
  /\ stop_pc' = "erase"
  /\ UNCHANGED <<startVars, wst, cur, queueVars, jobVars, stop_i,
                 alive_workers, sh_rc, submitVars, stop_actors_calls, joined,
                 last_worker, execVars, at_drain>>

\* sh.cv.wait(guard, pred): with the mutex held, either pred holds, wait
\* returns and the guard's scope ends (unlock), or the thread unlocks and
\* blocks on sh.cv
StopWait ==
  /\ stop_pc = "check"
  /\ mtx' = "free"
  /\ stop_pc' = IF WaitPredicate THEN "erase" ELSE "blocked"
  /\ UNCHANGED <<startVars, wst, cur, queueVars, jobVars, stop_i,
                 alive_workers, sh_rc, submitVars, stop_actors_calls, joined,
                 last_worker, execVars, at_drain>>

\* std::condition_variable::wait may wake without a notification
SpuriousWakeup ==
  /\ stop_pc = "blocked"
  /\ stop_pc' = "relock"
  /\ UNCHANGED <<startVars, wst, cur, queueVars, jobVars, stop_i,
                 alive_workers, sh_rc, submitVars, stop_actors_calls, joined,
                 last_worker, mtx, execVars, at_drain>>

\* Variant of StopErase: the worker sh was submitted to is erased.
StopErase_Target ==
  /\ stop_pc = "erase"
  /\ alive_workers' = alive_workers \ {sh_target}
  /\ stop_pc' = "reset"
  /\ UNCHANGED <<startVars, wst, cur, queueVars, jobVars, stop_i, sh_rc,
                 submitVars, stop_actors_calls, joined, last_worker, mtx,
                 execVars, at_drain>>

\* alive_workers.erase(static_cast<worker_type*>(sh.last_worker));
StopErase ==
  /\ stop_pc = "erase"
  /\ alive_workers' = alive_workers \ {last_worker}
  /\ stop_pc' = "reset"
  /\ UNCHANGED <<startVars, wst, cur, queueVars, jobVars, stop_i, sh_rc,
                 submitVars, stop_actors_calls, joined, last_worker, mtx,
                 execVars, at_drain>>

\* Variant of StopReset: sh.last_worker keeps the reported worker.
StopReset_Skip ==
  /\ stop_pc = "reset"
  /\ stop_pc' = "loop"
  /\ UNCHANGED <<startVars, wst, cur, queueVars, jobVars, stop_i,
                 alive_workers, sh_rc, submitVars, stop_actors_calls, joined,
                 last_worker, mtx, execVars, at_drain>>

\* sh.last_worker = nullptr; }
StopReset ==
  /\ stop_pc = "reset"
  /\ last_worker' = NoWorker
  /\ stop_pc' = "loop"
  /\ UNCHANGED <<startVars, wst, cur, queueVars, jobVars, stop_i,
                 alive_workers, sh_rc, submitVars, stop_actors_calls, joined,
                 mtx, execVars, at_drain>>

\* Variant of StopActors: the cleanup pass follows at once, without the joins.
StopActors_SkipJoin ==
  /\ stop_pc = "stop_actors"
  /\ stop_actors_calls' = stop_actors_calls + 1
  /\ stop_i' = 0
  /\ stop_pc' = "cleanup"
  /\ UNCHANGED <<startVars, wst, cur, queueVars, jobVars, alive_workers,
                 sh_rc, submitVars, joined, last_worker, mtx, execVars,
                 at_drain>>

\* stop_actors();
StopActors ==
  /\ stop_pc = "stop_actors"
  /\ stop_actors_calls' = stop_actors_calls + 1
  /\ stop_i' = 0
  /\ stop_pc' = "join"
  /\ UNCHANGED <<startVars, wst, cur, queueVars, jobVars, alive_workers,
                 sh_rc, submitVars, joined, last_worker, mtx, execVars,
                 at_drain>>

\* Variant of StopJoin: the loop does not wait for the thread to end.
StopJoin_NoWait ==
  /\ stop_pc = "join"
  /\ stop_i < Len(workers_)
  /\ joined' = joined \cup {worker_by_id(stop_i)}
  /\ IF stop_i + 1 < Len(workers_)
       THEN stop_i' = stop_i + 1 /\ stop_pc' = stop_pc
       ELSE stop_i' = 0 /\ stop_pc' = "cleanup"
  /\ UNCHANGED <<startVars, wst, cur, queueVars, jobVars, alive_workers,
                 sh_rc, submitVars, stop_actors_calls, last_worker, mtx,
                 execVars, at_drain>>

\* for (auto& w : workers_) w->get_thread().join();
\* join() returns once the thread has ended
StopJoin ==
  /\ stop_pc = "join"
  /\ stop_i < Len(workers_)
  /\ wst[worker_by_id(stop_i)] = "terminated"
  /\ joined' = joined \cup {worker_by_id(stop_i)}
  /\ IF stop_i + 1 < Len(workers_)
       THEN stop_i' = stop_i + 1 /\ stop_pc' = stop_pc
       ELSE stop_i' = 0 /\ stop_pc' = "cleanup"
  /\ UNCHANGED <<startVars, wst, cur, queueVars, jobVars, alive_workers,
                 sh_rc, submitVars, stop_actors_calls, last_worker, mtx,
                 execVars, at_drain>>

\* abstract_coordinator::cleanup_and_release applied to every item of q
cleanup_and_release(q) ==
  [x \in Items |-> cleaned[x] + Cardinality({k \in 1 .. Len(q) : q[k] = x})]

\* auto f = &abstract_coordinator::cleanup_and_release;
\* for (auto& w : workers_) policy_.foreach_resumable(w.get(), f);
\* foreach_resumable takes every job out of the worker's queue
StopCleanup ==
  /\ stop_pc = "cleanup"
  /\ stop_i < Len(workers_)
  /\ cleaned' = cleanup_and_release(local[worker_by_id(stop_i)])
  /\ local' = [local EXCEPT ![worker_by_id(stop_i)] = <<>>]
  /\ IF stop_i + 1 < Len(workers_)
       THEN stop_i' = stop_i + 1 /\ stop_pc' = stop_pc
       ELSE stop_i' = 0 /\ stop_pc' = "cleanup_central"
  /\ UNCHANGED <<startVars, wst, cur, central, resumes, enq, before_stop,
                 alive_workers, sh_rc, submitVars, stop_actors_calls, joined,
                 last_worker, mtx, execVars, at_drain>>

\* Variant of StopCleanupCentral: stop() returns without the central pass.
StopCleanupCentral_Skip ==
  /\ stop_pc = "cleanup_central"
  /\ stop_pc' = "done"
  /\ UNCHANGED <<startVars, wst, cur, queueVars, jobVars, stop_i,
                 alive_workers, sh_rc, submitVars, stop_actors_calls, joined,
                 last_worker, mtx, execVars, at_drain>>

\* policy_.foreach_central_resumable(this, f); and stop() returns
StopCleanupCentral ==
  /\ stop_pc = "cleanup_central"
  /\ cleaned' = cleanup_and_release(central)
  /\ central' = <<>>
  /\ stop_pc' = "done"
  /\ UNCHANGED <<startVars, wst, cur, local, resumes, enq, before_stop,
                 stop_i, alive_workers, sh_rc, submitVars, stop_actors_calls,
                 joined, last_worker, mtx, execVars, at_drain>>

\* ------------------------------------------------------------ specification
StartStep == StartCall \/ StartConstruct \/ StartLaunch \/ StartSuper

WorkerStep(w) ==
  \/ Dequeue(w)
  \/ DequeueCentral(w)
  \/ \E v \in WorkerIds : Steal(w, v)
  \/ ResumeJob(w)
  \/ ShLock(w)
  \/ ShSet(w)
  \/ ShNotifyReturn(w)
  \/ WorkerExit(w)

StopStep ==
  \/ StopCall
  \/ StopFill
  \/ StopSubmit
  \/ StopLoopExit
  \/ StopLock
  \/ StopWait
  \/ StopErase
  \/ StopReset
  \/ StopActors
  \/ StopJoin
  \/ StopCleanup
  \/ StopCleanupCentral

Producer == \E j \in Jobs : Enqueue(j)

Next ==
  \/ StartStep
  \/ Producer
  \/ \E w \in WorkerIds : WorkerStep(w)
  \/ StopStep
  \/ SpuriousWakeup

Spec == Init /\ [][Next]_vars

\* Fairness for shutdown: the control thread keeps running stop() once it
\* has entered it, and every worker thread is scheduled whenever it can
\* take a step again and again (strong fairness: sh.mtx may be taken and
\* released by the waiting thread arbitrarily often).
FairSpec ==
  /\ Spec
  /\ WF_vars(stop_pc /= "idle" /\ StopStep)
  /\ \A w \in WorkerIds : SF_vars(WorkerStep(w))

\* A policy that breaks its contract: a submitted sentinel disappears from
\* the queue it was placed in.
PolicyLoses(w) ==
  /\ SH \in Range(local[w])
  /\ local' = [local EXCEPT ![w] = SelectSeq(@, LAMBDA x : x /= SH)]
  /\ UNCHANGED <<startVars, wst, cur, central, jobVars, stopVars,
                 last_worker, mtx, execVars, at_drain>>

NextLossy ==
  \/ Next
  \/ \E w \in WorkerIds : PolicyLoses(w)

SpecLossy == Init /\ [][NextLossy]_vars

\* ------------------------------------------------------------------ claims
Pool == 0 .. (num - 1)

\* number of resume() calls on job j
resumed(j) == resumes[j]

\* the drain loop of stop() is over
DrainDone ==
  stop_pc \in {"stop_actors", "join", "cleanup", "cleanup_central", "done"}

\* the control thread is inside guard(sh.mtx) / sh.cv.wait
InWait == stop_pc \in {"lock", "check", "blocked", "relock"}

\* the sentinel is neither queued nor in a worker's hands
NotInFlight == SH \notin Queued /\ \A w \in WorkerIds : cur[w] /= <<SH>>

\* C1: under fair scheduling of the workers and of the control thread, a
\* call of stop() eventually returns, with the alive set empty, every
\* worker joined and the cleanup pass finished.
C1_StopReturns ==
  (stop_pc /= "idle") ~>
     (stop_pc = "done" /\ alive_workers = {} /\ joined = Pool)

C1_Witness ==
  /\ stop_pc = "done"
  /\ num = MaxWorkers
  /\ relocations > 0
  /\ joined = Pool

\* C2: no worker executes the sentinel's resume() twice, and when the drain
\* loop is over every worker has executed it exactly once (N executions
\* in total), whatever stealing did to the submissions.
C2_SentinelOncePerWorker ==
  /\ \A w \in WorkerIds : sh_exec[w] <= 1
  /\ \A w \in WorkerIds \ Pool : sh_exec[w] = 0
  /\ DrainDone => \A w \in Pool : sh_exec[w] = 1

C2_Witness ==
  /\ stop_pc = "done"
  /\ num = MaxWorkers
  /\ relocations > 0
  /\ \A w \in Pool : sh_exec[w] = 1

\* C3: when stop() has returned every worker has executed the sentinel, its
\* run loop has ended and its thread has been joined.
C3_ReturnMeansAllJoined ==
  stop_pc = "done" =>
    \A w \in Pool : sh_exec[w] = 1 /\ wst[w] = "terminated" /\ w \in joined

C3_Witness ==
  /\ stop_pc = "done"
  /\ num = MaxWorkers
  /\ \A w \in Pool : wst[w] = "terminated" /\ w \in joined

\* C4: no resumable is cleaned up twice, and when stop() has returned every
\* resumable that was queued (locally or centrally) when the last worker
\* terminated has been passed to the cleanup callback exactly once.
C4_QueuedCleanedOnce ==
  /\ \A j \in Jobs : cleaned[j] <= 1
  /\ stop_pc = "done" =>
       /\ at_drain.taken
       /\ \A j \in at_drain.jobs : cleaned[j] = 1

C4_Witness ==
  /\ stop_pc = "done"
  /\ at_drain.jobs = Jobs
  /\ \A j \in Jobs : cleaned[j] = 1

\* C5: no resumable is resumed twice, and when stop() has returned each
\* resumable enqueued before stop() was called has been either resumed
\* once or cleaned up once, never both and never neither.
C5_ResumedOrCleaned ==
  /\ \A j \in Jobs : resumed(j) <= 1
  /\ stop_pc = "done" => \A j \in before_stop : resumed(j) + cleaned[j] = 1

C5_Witness ==
  /\ stop_pc = "done"
  /\ before_stop = Jobs
  /\ \E j \in Jobs : resumed(j) = 1 /\ cleaned[j] = 0
  /\ \E j \in Jobs : resumed(j) = 0 /\ cleaned[j] = 1

\* C6: no resumable is resumed twice, and as long as stop() is not called
\* every enqueued resumable is eventually resumed, by one resume() call of
\* the pool (the obligation ends when stop() is called).
C6_EventuallyResumedOnce ==
  /\ [](\A j \in Jobs : resumed(j) <= 1)
  /\ \A j \in Jobs :
       (j \in enq /\ stop_pc = "idle") ~>
          \/ resumed(j) = 1
          \/ stop_pc /= "idle"

C6_Witness ==
  /\ stop_pc = "idle"
  /\ num = MaxWorkers
  /\ enq = Jobs
  /\ \A j \in Jobs : resumed(j) = 1
  /\ \A w \in Pool : wst[w] = "idle"
  /\ Queued = {}

\* C7: stop() submits the sentinel at most N times: the worker reported at
\* each erase is still in the alive set, so every iteration removes
\* exactly one worker and the set is empty after exactly N submissions.
C7_BoundedSubmissions ==
  /\ sh_submits <= num
  /\ stop_pc = "erase" => last_worker \in alive_workers
  /\ stop_pc = "loop" => Cardinality(alive_workers) = num - sh_submits
  /\ DrainDone => sh_submits = num /\ alive_workers = {}

C7_Witness ==
  /\ stop_pc = "loop"
  /\ alive_workers = {}
  /\ num = MaxWorkers
  /\ sh_submits = num
  /\ relocations > 0

\* C8: when start() has returned the pool holds exactly N workers with the
\* indices 0..N-1, every worker thread has been started and worker_by_id(i)
\* is worker i; the pool never changes afterwards, and a resumable enqueued
\* from then on lands in the central queue or in the queue of a started
\* worker of the pool.
C8_PoolBuilt ==
  /\ Len(workers_) = num
  /\ \A i \in Pool : worker_by_id(i) = i /\ wst[i] \notin {"none", "new"}

C8_StartBuildsPool ==
  /\ [](start_pc = "done" => C8_PoolBuilt)
  /\ [][start_pc = "done" => workers_' = workers_]_vars
  /\ [][\A j \in Jobs :
          (j \notin enq /\ j \in enq') =>
             /\ C8_PoolBuilt
             /\ \/ j \in Range(central')
                \/ \E w \in Pool : j \in Range(local'[w])]_vars

C8_Witness ==
  /\ start_pc = "done"
  /\ num = MaxWorkers
  /\ \E w \in Pool : local[w] /= <<>>
  /\ \A i \in Pool : worker_by_id(i) = i /\ wst[i] = "idle"

\* C9: stop_actors() runs at most once, only when the alive set is empty
\* and every worker has reported, and it has run before any thread is
\* joined and before any cleanup callback is applied.
C9_StopActorsOrder ==
  /\ stop_actors_calls <= 1
  /\ stop_actors_calls = 1 =>
       alive_workers = {} /\ \A w \in Pool : sh_exec[w] = 1
  /\ stop_pc \in {"join", "cleanup", "cleanup_central", "done"} =>
       stop_actors_calls = 1
  /\ (joined /= {} \/ \E x \in Items : cleaned[x] > 0) => stop_actors_calls = 1
  /\ stop_pc \in {"idle", "fill", "loop", "lock", "check", "blocked", "relock",
                  "erase", "reset", "stop_actors"} =>
       stop_actors_calls = 0 /\ joined = {} /\ \A x \in Items : cleaned[x] = 0

C9_Witness ==
  /\ stop_pc = "join"
  /\ stop_actors_calls = 1
  /\ joined = {}
  /\ num = MaxWorkers

\* C10: stop() leaves its wait only with a reported worker; once the
\* submitted sentinel is lost with no report made, stop() stays in the wait
\* for ever: no further submission, no stop_actors(), no join, no cleanup.
C10_Undelivered == InWait /\ last_worker = NoWorker /\ NotInFlight

C10_HangsWithoutDelivery ==
  /\ [][(InWait /\ last_worker = NoWorker) =>
          (InWait' /\ sh_submits' = sh_submits)]_vars
  /\ [][C10_Undelivered => C10_Undelivered']_vars
  /\ [](C10_Undelivered =>
          /\ ~DrainDone
          /\ stop_actors_calls = 0
          /\ joined = {}
          /\ \A x \in Items : cleaned[x] = 0)

C10_Witness ==
  /\ C10_Undelivered
  /\ stop_pc = "blocked"
  /\ sh_submits = num
  /\ num = MaxWorkers

\* C11: when no resumable was ever enqueued, the cleanup pass applies the
\* callback to nothing (not to a job, not to the sentinel), and stop()
\* returns after the N sentinel executions alone.
C11_NoJobsNoCleanup ==
  enq = {} =>
    /\ \A x \in Items : cleaned[x] = 0
    /\ \A j \in Jobs : resumed(j) = 0
    /\ Queued \cap Jobs = {}
    /\ stop_pc = "done" =>
         /\ sh_submits = num
         /\ \A w \in Pool : sh_exec[w] = 1

C11_Witness ==
  /\ stop_pc = "done"
  /\ num = 1
  /\ enq = {}
  /\ sh_exec[0] = 1

\* a worker is inside the critical section of shutdown_helper::resume()
InResume(w) == wst[w] \in {"sh_locked", "sh_set"}

\* C12 as stated: every read and write of sh.last_worker happens with
\* sh.mtx held by the accessing thread: the worker's write in resume(), the
\* wait predicate, the read for the erase and the reset to nullptr.
C12_AllAccessesLocked ==
  /\ \A w \in WorkerIds : InResume(w) => mtx = "worker"
  /\ stop_pc = "check" => mtx = "stop"
  /\ stop_pc \in {"erase", "reset"} => mtx = "stop"

\* C12 as the code has it: the worker's write and the wait predicate happen
\* with sh.mtx held; the read for the erase and the reset to nullptr happen
\* after the guard's scope has ended, with sh.mtx free, at a time when no
\* worker is inside resume() or can still enter it.
C12_LockedExceptEraseReset ==
  /\ \A w \in WorkerIds : InResume(w) => mtx = "worker"
  /\ Cardinality({w \in WorkerIds : InResume(w)}) <= 1
  /\ stop_pc = "check" => mtx = "stop"
  /\ stop_pc \in {"erase", "reset"} =>
       /\ mtx = "free"
       /\ NotInFlight
       /\ \A w \in WorkerIds : ~InResume(w)

C12_Witness ==
  /\ stop_pc = "reset"
  /\ mtx = "free"
  /\ last_worker \in Pool
  /\ num = MaxWorkers
  /\ \E w \in Pool : wst[w] \in {"idle", "resume"}

\* the workers of the pool that have not executed the sentinel
Unreported == {w \in Pool : sh_exec[w] = 0}

\* C13: the identity erased in a drain-loop iteration is non-null and is
\* the worker that executed the sentinel submitted in that iteration (it
\* has executed once, has left its loop, is still in the alive set, and
\* executions match submissions); after the erase the alive set is exactly
\* the set of workers that have not executed, and a consumed report is
\* never seen again (it is reset before the next submission).
C13_ReportConsumedOnce ==
  /\ stop_pc = "erase" =>
       /\ last_worker \in Pool
       /\ last_worker \in alive_workers
       /\ sh_exec[last_worker] = 1
       /\ wst[last_worker] \in {"exiting", "terminated"}
       /\ alive_workers \ {last_worker} = Unreported
       /\ Cardinality(Pool \ Unreported) = sh_submits
  /\ stop_pc = "reset" => alive_workers = Unreported /\ last_worker \notin alive_workers
  /\ stop_pc = "loop" => alive_workers = Unreported /\ last_worker = NoWorker
  /\ InWait => last_worker \in alive_workers \cup {NoWorker}

C13_Witness ==
  /\ stop_pc = "erase"
  /\ num = MaxWorkers
  /\ last_worker \in Pool
  /\ last_worker /= sh_target

\* the run loop of worker w is live: started and not yet told to shut down
Live(w) == wst[w] \in {"idle", "resume"} /\ cur[w] /= <<SH>>

\* C14: whenever stop() is about to submit, every candidate target has not
\* executed the sentinel and its run loop is live; and at every
\* external_enqueue of the sentinel the chosen target has not been
\* reported, has not executed the sentinel and its run loop is live.
C14_SubmitsOnlyToLive ==
  /\ [](stop_pc = "loop" =>
          \A t \in alive_workers : t \in Pool /\ sh_exec[t] = 0 /\ Live(t))
  /\ [][sh_submits' /= sh_submits =>
          /\ sh_target' \in Unreported
          /\ sh_exec'[sh_target'] = 0
          /\ Live(sh_target')
          /\ SH \in Range(local'[sh_target'])]_vars

C14_Witness ==
  /\ stop_pc = "lock"
  /\ sh_submits = MaxWorkers
  /\ SH \in Range(local[sh_target])
  /\ Live(sh_target)
  /\ \E w \in Pool : wst[w] = "terminated" /\ w /= sh_target

\* some worker thread has been started
AnyStarted == \E w \in WorkerIds : wst[w] \notin {"none", "new"}

\* C15: no worker thread is started while start() is still constructing
\* workers; once any worker thread runs, the pool holds all N workers,
\* entry i being the constructed worker i, and the pool is never changed
\* again.
C15_ConstructBeforeLaunch ==
  /\ [](start_pc = "construct" => ~AnyStarted)
  /\ [](AnyStarted =>
          /\ Len(workers_) = num
          /\ \A i \in Pool : worker_by_id(i) = i /\ wst[i] /= "none")
  /\ [][AnyStarted => workers_' = workers_]_vars

C15_Witness ==
  /\ start_pc = "launch"
  /\ num = MaxWorkers
  /\ Len(workers_) = num
  /\ wst[0] = "idle"
  /\ \E w \in Pool : wst[w] = "new"

\* the cleanup pass of stop() is running
InCleanup == stop_pc \in {"cleanup", "cleanup_central"}

\* C16: the cleanup pass runs only with every worker thread joined: while
\* a cleanup callback can be applied every worker has terminated, holds no
\* job and has been joined, and no callback was applied before all threads
\* were joined.
C16_CleanupAfterJoin ==
  /\ InCleanup =>
       /\ joined = Pool
       /\ \A w \in Pool : wst[w] = "terminated" /\ cur[w] = <<>>
  /\ (\E x \in Items : cleaned[x] > 0) =>
       /\ joined = Pool
       /\ \A w \in Pool : wst[w] = "terminated"

C16_Witness ==
  /\ stop_pc = "cleanup"
  /\ num = MaxWorkers
  /\ stop_i = 1
  /\ joined = Pool
  /\ \E j \in Jobs : cleaned[j] = 1
  /\ \E w \in Pool : local[w] /= <<>>

\* number of occurrences of x in the sequence q
Count(q, x) == Cardinality({k \in 1 .. Len(q) : q[k] = x})

\* instances of the sentinel that are queued or in a worker's hands
InFlight ==
  Count(central, SH)
  + Cardinality({p \in UNION {{<<w, k>> : k \in DOMAIN local[w]} : w \in WorkerIds} :
                   local[p[1]][p[2]] = SH})
  + Cardinality({w \in WorkerIds : cur[w] = <<SH>>})

\* C17: at most one instance of the sentinel is in flight at any time;
\* from the return of the wait to the next submission (erase, reset, loop
\* head) none is queued or executing; a worker only writes its report over
\* nullptr, and the reset only discards a report the erase has consumed.
C17_OneSentinelInFlight ==
  /\ InFlight <= 1
  /\ stop_pc \notin {"lock", "check", "blocked", "relock"} => InFlight = 0
  /\ \A w \in WorkerIds : wst[w] = "sh_locked" => last_worker = NoWorker
  /\ stop_pc = "reset" =>
       /\ last_worker \in Pool
       /\ last_worker \notin alive_workers
       /\ sh_exec[last_worker] = 1

C17_Witness ==
  /\ stop_pc = "erase"
  /\ InFlight = 0
  /\ last_worker \in alive_workers
  /\ num = MaxWorkers
  /\ \E w \in Pool : wst[w] = "idle" /\ sh_exec[w] = 0

\* C18: no wakeup is lost.  The control thread goes to sleep on sh.cv only
\* with sh.mtx held and no report present; it is never asleep while a
\* report is present whose notification has already been issued; and when
\* it evaluates the wait predicate with a report present (also one made
\* and notified before it first took sh.mtx) it leaves the wait.
C18_NoLostWakeup ==
  /\ []((stop_pc = "blocked" /\ last_worker /= NoWorker) =>
          \E w \in WorkerIds : wst[w] = "sh_set")
  /\ [][(stop_pc /= "blocked" /\ stop_pc' = "blocked") =>
          (stop_pc = "check" /\ mtx = "stop" /\ last_worker = NoWorker)]_vars
  /\ [][(stop_pc = "check" /\ last_worker /= NoWorker /\ stop_pc' /= stop_pc) =>
          stop_pc' = "erase"]_vars

C18_Witness ==
  /\ stop_pc = "lock"
  /\ last_worker \in Pool
  /\ mtx = "free"
  /\ wst[last_worker] \in {"exiting", "terminated"}
  /\ \A w \in WorkerIds : wst[w] /= "sh_set"

\* C19: while the cleanup pass runs, and after it, the sentinel is in no
\* worker's queue and not in the central queue, and the release callback
\* is never applied to it.
C19_SentinelNeverCleaned ==
  /\ cleaned[SH] = 0
  /\ stop_pc \in {"cleanup", "cleanup_central", "done"} =>
       SH \notin Queued /\ InFlight = 0

C19_Witness ==
  /\ stop_pc = "cleanup"
  /\ stop_i = 0
  /\ num = MaxWorkers
  /\ relocations > 0
  /\ enq = Jobs
  /\ \E w \in Pool : local[w] /= <<>>

=============================================================================
